---- MODULE Spec2Model ----
(***************************************************************************)
(* Model of challenge.py: three address parsers (parse_xml, parse_tsv,     *)
(* parse_txt), the dispatcher process_files and the entry point main.      *)
(*                                                                         *)
(* Text is modelled as a sequence of one-character strings, so that        *)
(* str.strip, str.rsplit, str.join, str.endswith and the lexicographic     *)
(* comparison used by sorted() are computed character by character.        *)
(* An address (a Python dict) is a function from the keys it holds to      *)
(* their text.                                                             *)
(***************************************************************************)
EXTENDS Integers, Sequences, FiniteSets, TLC

VARIABLES files, i, all_addresses, parsed, pc, error, log, stdout, exit_code

vars == <<files, i, all_addresses, parsed, pc, error, log, stdout, exit_code>>

(***************************************************************************)
(* Bounds of the model.                                                    *)
(***************************************************************************)
MaxFiles == 3
MaxEntries == 3
MaxLineLen == 4

(***************************************************************************)
(* Text.                                                                   *)
(***************************************************************************)
\* The characters str.strip() removes when called without argument; the
\* model's alphabet holds two of them.
Whitespace == {" ", "\t"}

\* Code point of a character, as compared by Python's str ordering.
Ord(c) ==
    CASE c = "\t" -> 9
      [] c = " " -> 32
      [] c = "," -> 44
      [] c = "-" -> 45
      [] c = "." -> 46
      [] c = "/" -> 47
      [] c = "0" -> 48
      [] c = "1" -> 49
      [] c = "2" -> 50
      [] c = "3" -> 51
      [] c = "9" -> 57
      [] c = "A" -> 65
      [] c = "N" -> 78
      [] OTHER -> 97

RECURSIVE lstrip(_, _)
lstrip(s, chars) ==
    IF s # <<>> /\ Head(s) \in chars THEN lstrip(Tail(s), chars) ELSE s

RECURSIVE rstrip(_, _)
rstrip(s, chars) ==
    IF s # <<>> /\ s[Len(s)] \in chars
    THEN rstrip(SubSeq(s, 1, Len(s) - 1), chars)
    ELSE s

strip(s) == lstrip(rstrip(s, Whitespace), Whitespace)

\* s.rsplit(sep, 1): one piece when sep does not occur, otherwise the text
\* before the last sep and the text after it.
rsplit(s, sep) ==
    LET at == {k \in 1..Len(s) : s[k] = sep}
    IN  IF at = {} THEN <<s>>
        ELSE LET k == CHOOSE m \in at : \A n \in at : n <= m
             IN  <<SubSeq(s, 1, k - 1), SubSeq(s, k + 1, Len(s))>>

RECURSIVE join(_, _)
join(sep, parts) ==
    IF parts = <<>> THEN <<>>
    ELSE IF Len(parts) = 1 THEN parts[1]
    ELSE parts[1] \o sep \o join(sep, Tail(parts))

endswith(s, suffix) ==
    /\ Len(s) >= Len(suffix)
    /\ SubSeq(s, Len(s) - Len(suffix) + 1, Len(s)) = suffix

\* a < b for Python str: the first differing character decides, a proper
\* prefix is smaller.
RECURSIVE StrLess(_, _)
StrLess(a, b) ==
    IF a = <<>> THEN b # <<>>
    ELSE IF b = <<>> THEN FALSE
    ELSE IF Ord(Head(a)) # Ord(Head(b)) THEN Ord(Head(a)) < Ord(Head(b))
    ELSE StrLess(Tail(a), Tail(b))

NA == <<"N", "/", "A">>
SP == <<" ">>

(***************************************************************************)
(* Address records and parser outcomes.                                    *)
(***************************************************************************)
EmptyDict == [k \in {} |-> <<>>]

\* address[key] = value
SetItem(address, key, value) == (key :> value) @@ address

Returned(addresses) == [status |-> "ok", addresses |-> addresses]
Raised(exception) == [status |-> exception, addresses |-> <<>>]

(***************************************************************************)
(* parse_tsv                                                               *)
(***************************************************************************)
is_valid_data_strict(value) == value # NA /\ value # <<>> /\ strip(value) # <<>>

is_valid_data(value) == value \notin {NA, <<>>}

EXPECTED_HEADERS ==
    {"first", "middle", "last", "organization", "address", "city", "state",
     "county", "zip", "zip4"}

check_tsv_format(headers, expected_headers) == expected_headers \ headers

tsv_name_org(row) ==
    IF ~is_valid_data(row["first"]) /\ is_valid_data(row["last"])
    THEN SetItem(EmptyDict, "organization", row["last"])
    ELSE SetItem(EmptyDict, "name",
                 join(SP, SelectSeq(<<row["first"], row["middle"], row["last"]>>,
                                    is_valid_data)))

tsv_copy(address, row, column, key) ==
    IF is_valid_data(row[column]) THEN SetItem(address, key, row[column])
    ELSE address

tsv_zip_nohyphen(address, row) ==
    IF is_valid_data(row["zip"])
    THEN SetItem(address, "zip",
                 IF is_valid_data(row["zip4"]) THEN row["zip"] \o row["zip4"]
                 ELSE row["zip"])
    ELSE address

tsv_zip(address, row) ==
    IF is_valid_data(row["zip"])
    THEN SetItem(address, "zip",
                 IF is_valid_data(row["zip4"])
                 THEN row["zip"] \o <<"-">> \o row["zip4"]
                 ELSE row["zip"])
    ELSE address

tsv_row(row) ==
    tsv_zip(
      tsv_copy(
        tsv_copy(
          tsv_copy(
            tsv_copy(tsv_name_org(row), row, "address", "street"),
            row, "city", "city"),
          row, "county", "county"),
        row, "state", "state"),
      row)

parse_tsv(file) ==
    IF check_tsv_format(file.headers, EXPECTED_HEADERS) # {}
    THEN Raised("InvalidFileFormatError")
    ELSE Returned([k \in 1..Len(file.rows) |-> tsv_row(file.rows[k])])

(***************************************************************************)
(* parse_xml                                                               *)
(*                                                                         *)
(* A document is: wellformed (whether ET.parse accepts it), other_tags     *)
(* (the tags that occur in it outside the direct children of the ENT       *)
(* nodes) and ents, the ENT nodes in document order.  An ENT node is a     *)
(* function from the tags of its direct children to elements; an element   *)
(* is its text, or no text at all (Element.text is None for <NAME/> and    *)
(* for <NAME></NAME>).                                                     *)
(***************************************************************************)
Elem(text) == [is_none |-> FALSE, text |-> text]
EmptyElem == [is_none |-> TRUE, text |-> <<>>]

EXPERCTED_TAGS ==
    {"NAME", "COMPANY", "STREET", "STREET_2", "STREET_3", "CITY", "STATE",
     "COUNTRY", "POSTAL_CODE"}

\* The tags check_xml_format does not find among {elem.tag for elem in root.iter()}.
check_xml_format(file, expected_tags) ==
    expected_tags \ (file.other_tags \cup UNION {DOMAIN file.ents[k] : k \in 1..Len(file.ents)})

\* entry.find(tag) is not None
found(entry, tag) == tag \in DOMAIN entry

\* The tags whose element's text is sent .strip() whenever the element exists.
StrippedTags == {"NAME", "COMPANY", "STREET", "STREET_2", "STREET_3"}

\* None.strip(): AttributeError
xml_attribute_error(entry) ==
    \E tag \in StrippedTags : found(entry, tag) /\ entry[tag].is_none

xml_stripped(address, entry, tag, key) ==
    IF found(entry, tag) /\ strip(entry[tag].text) # <<>>
    THEN SetItem(address, key, strip(entry[tag].text))
    ELSE address

xml_street_part(part) == strip(part.text) # <<>>

xml_streets(entry) ==
    LET street_parts ==
            SelectSeq(<<"STREET", "STREET_2", "STREET_3">>, LAMBDA t : found(entry, t))
        elems == [k \in 1..Len(street_parts) |-> entry[street_parts[k]]]
        kept == SelectSeq(elems, xml_street_part)
    IN  join(SP, [k \in 1..Len(kept) |-> strip(kept[k].text)])

xml_street(address, entry) ==
    IF xml_streets(entry) # <<>> THEN SetItem(address, "street", xml_streets(entry))
    ELSE address

xml_verbatim(address, entry, tag, key) ==
    IF found(entry, tag) /\ ~entry[tag].is_none /\ entry[tag].text # <<>>
    THEN SetItem(address, key, entry[tag].text)
    ELSE address

xml_zip(address, entry) ==
    IF found(entry, "POSTAL_CODE") /\ ~entry["POSTAL_CODE"].is_none
       /\ entry["POSTAL_CODE"].text # <<>>
    THEN SetItem(address, "zip", rstrip(strip(entry["POSTAL_CODE"].text), {" ", "-"}))
    ELSE address

xml_entry(entry) ==
    xml_zip(
      xml_verbatim(
        xml_verbatim(
          xml_street(
            xml_stripped(xml_stripped(EmptyDict, entry, "NAME", "name"),
                         entry, "COMPANY", "organization"),
            entry),
          entry, "CITY", "city"),
        entry, "STATE", "state"),
      entry)

RECURSIVE xml_loop(_, _)
xml_loop(ents, addresses) ==
    IF ents = <<>> THEN Returned(addresses)
    ELSE IF xml_attribute_error(Head(ents)) THEN Raised("AttributeError")
    ELSE xml_loop(Tail(ents), Append(addresses, xml_entry(Head(ents))))

parse_xml(file) ==
    IF ~file.wellformed THEN Raised("InvalidFileFormatError")
    ELSE IF check_xml_format(file, EXPERCTED_TAGS) # {}
    THEN Raised("InvalidFileFormatError")
    ELSE xml_loop(file.ents, <<>>)

(***************************************************************************)
(* parse_txt                                                               *)
(*                                                                         *)
(* A file is the sequence of the pieces file.read().strip().split('\n\n')  *)
(* yields (never empty: an empty file yields one piece without lines);     *)
(* each piece is the sequence of its lines, as entry.split('\n') yields    *)
(* them.                                                                   *)
(***************************************************************************)
format_zip_keep_hyphen(zip_code) == strip(zip_code)

format_zip(zip_code) == strip(rstrip(strip(zip_code), {"-"}))

txt_not_blank(line) == strip(line) # <<>>

\* [line.strip() for line in entry.split('\n') if line.strip()]
txt_lines(entry) ==
    LET kept == SelectSeq(entry, txt_not_blank)
    IN  [k \in 1..Len(kept) |-> strip(kept[k])]

txt_shape_error(lines) == Len(lines) < 3 \/ Len(lines) > 4

txt_county(address, lines) ==
    IF Len(lines) = 4 THEN SetItem(address, "county", lstrip(lines[3], {"\t"}))
    ELSE address

\* The entry's address, or the exception its last line raises.
txt_entry(lines) ==
    LET address == txt_county(
                     SetItem(SetItem(EmptyDict, "name", lstrip(lines[1], {"\t"})),
                             "street", lstrip(lines[2], {"\t"})),
                     lines)
        city_state_zip_line == lstrip(lines[Len(lines)], {"\t"})
        city_state_zip == rsplit(city_state_zip_line, ",")
    IN  IF Len(city_state_zip) < 2 THEN Raised("IndexError")
        ELSE LET state_zip == rsplit(city_state_zip[2], " ")
             IN  IF Len(state_zip) < 2 THEN Raised("IndexError")
                 ELSE Returned(<<
                        SetItem(SetItem(SetItem(address, "city", strip(city_state_zip[1])),
                                        "state", strip(state_zip[1])),
                                "zip", format_zip(state_zip[2]))>>)

RECURSIVE txt_loop(_, _)
txt_loop(entries, addresses) ==
    IF entries = <<>> THEN Returned(addresses)
    ELSE LET lines == txt_lines(Head(entries))
         IN  IF txt_shape_error(lines) THEN Raised("InvalidFileFormatError")
             ELSE IF txt_entry(lines).status # "ok" THEN txt_entry(lines)
             ELSE txt_loop(Tail(entries), addresses \o txt_entry(lines).addresses)

parse_txt(file) == txt_loop(file.entries, <<>>)

(***************************************************************************)
(* process_files and main                                                  *)
(***************************************************************************)
\* sorted(all_addresses, key=lambda x: x['zip']) compares the keys with <
\* and is stable: an address is placed in front of the first one whose zip
\* is greater than its own, behind every one with an equal zip.
\* As insert_by_zip, but in front of the addresses with an equal zip.
RECURSIVE insert_before_equal(_, _)
insert_before_equal(address, addresses) ==
    IF addresses = <<>> THEN <<address>>
    ELSE IF ~StrLess(Head(addresses)["zip"], address["zip"])
    THEN <<address>> \o addresses
    ELSE <<Head(addresses)>> \o insert_before_equal(address, Tail(addresses))

RECURSIVE insert_by_zip(_, _)
insert_by_zip(address, addresses) ==
    IF addresses = <<>> THEN <<address>>
    ELSE IF StrLess(address["zip"], Head(addresses)["zip"])
    THEN <<address>> \o addresses
    ELSE <<Head(addresses)>> \o insert_by_zip(address, Tail(addresses))

RECURSIVE sorted_by_zip(_)
sorted_by_zip(addresses) ==
    IF addresses = <<>> THEN <<>>
    ELSE insert_by_zip(addresses[Len(addresses)],
                       sorted_by_zip(SubSeq(addresses, 1, Len(addresses) - 1)))

\* The key function raises KeyError on an address without 'zip'.
sort_key_error(addresses) ==
    \E k \in 1..Len(addresses) : "zip" \notin DOMAIN addresses[k]

XML_SUFFIX == <<".", "x", "m", "l">>
TSV_SUFFIX == <<".", "t", "s", "v">>
TXT_SUFFIX == <<".", "t", "x", "t">>

LogEntry(level, message, k) == [level |-> level, message |-> message, file |-> k]

\* An exception leaves process_files.  main catches InvalidFileFormatError,
\* logs it and exits with 1; any other exception is uncaught and the
\* interpreter ends with a traceback and exit status 1.  Nothing is printed.
Raise(exception) ==
    /\ error' = exception
    /\ log' = IF exception = "InvalidFileFormatError"
              THEN Append(log, LogEntry("ERROR", "format error", i))
              ELSE log
    /\ exit_code' = 1
    /\ pc' = "done"
    /\ UNCHANGED <<files, i, all_addresses, stdout>>

\* As Extend, but a failing file is logged and passed over.
ExtendOrSkip(result) ==
    /\ all_addresses' = all_addresses \o result.addresses
    /\ log' = IF result.status = "ok" THEN log
              ELSE Append(log, LogEntry("ERROR", "format error", i))
    /\ i' = i + 1
    /\ UNCHANGED <<files, pc, error, stdout, exit_code>>

\* all_addresses.extend(parse_...(file_path))
Extend(result) ==
    IF result.status = "ok"
    THEN /\ all_addresses' = all_addresses \o result.addresses
         /\ i' = i + 1
         /\ UNCHANGED <<files, pc, error, log, stdout, exit_code>>
    ELSE Raise(result.status)

InLoop == pc = "loop" /\ i <= Len(files)

\* As NotFound, but the missing file ends the run.
NotFoundAborts ==
    /\ InLoop
    /\ ~files[i].isfile
    /\ log' = Append(log, LogEntry("ERROR", "File not found", i))
    /\ error' = "FileNotFoundError"
    /\ exit_code' = 1
    /\ pc' = "done"
    /\ UNCHANGED <<files, i, all_addresses, parsed, stdout>>

NotFound ==
    /\ InLoop
    /\ ~files[i].isfile
    /\ log' = Append(log, LogEntry("ERROR", "File not found", i))
    /\ i' = i + 1
    /\ UNCHANGED <<files, all_addresses, parsed, pc, error, stdout, exit_code>>

DispatchXml ==
    /\ InLoop
    /\ files[i].isfile
    /\ endswith(files[i].name, XML_SUFFIX)
    /\ parsed' = Append(parsed, i)
    /\ Extend(parse_xml(files[i]))

DispatchTsv ==
    /\ InLoop
    /\ files[i].isfile
    /\ ~endswith(files[i].name, XML_SUFFIX)
    /\ endswith(files[i].name, TSV_SUFFIX)
    /\ parsed' = Append(parsed, i)
    /\ Extend(parse_tsv(files[i]))

DispatchTxt ==
    /\ InLoop
    /\ files[i].isfile
    /\ ~endswith(files[i].name, XML_SUFFIX)
    /\ ~endswith(files[i].name, TSV_SUFFIX)
    /\ endswith(files[i].name, TXT_SUFFIX)
    /\ parsed' = Append(parsed, i)
    /\ Extend(parse_txt(files[i]))

Unsupported ==
    /\ InLoop
    /\ files[i].isfile
    /\ ~endswith(files[i].name, XML_SUFFIX)
    /\ ~endswith(files[i].name, TSV_SUFFIX)
    /\ ~endswith(files[i].name, TXT_SUFFIX)
    /\ log' = Append(log, LogEntry("WARNING", "Unsupported file format", i))
    /\ i' = i + 1
    /\ UNCHANGED <<files, all_addresses, parsed, pc, error, stdout, exit_code>>

\* The loop is over: process_files sorts and returns, main prints the JSON
\* text and the process ends with status 0.
SortAndPrint ==
    /\ pc = "loop"
    /\ i > Len(files)
    /\ UNCHANGED parsed
    /\ IF sort_key_error(all_addresses)
       THEN Raise("KeyError")
       ELSE /\ stdout' = <<sorted_by_zip(all_addresses)>>
            /\ exit_code' = 0
            /\ pc' = "done"
            /\ UNCHANGED <<files, i, all_addresses, error, log>>

(***************************************************************************)
(* Inputs: the command line's files, with what each path holds.            *)
(***************************************************************************)
File(name, isfile, wellformed, other_tags, ents, headers, rows, entries) ==
    [name |-> name, isfile |-> isfile, wellformed |-> wellformed,
     other_tags |-> other_tags, ents |-> ents, headers |-> headers,
     rows |-> rows, entries |-> entries]

XmlFile(wellformed, other_tags, ents) ==
    File(<<"a">> \o XML_SUFFIX, TRUE, wellformed, other_tags, ents, {}, <<>>, <<>>)

TsvFile(headers, rows) ==
    File(<<"b">> \o TSV_SUFFIX, TRUE, TRUE, {}, <<>>, headers, rows, <<>>)

TxtFile(entries) ==
    File(<<"c">> \o TXT_SUFFIX, TRUE, TRUE, {}, <<>>, {}, <<>>, entries)

Row(first, middle, last, address, city, zip, zip4) ==
    [h \in EXPECTED_HEADERS |->
        CASE h = "first" -> first
          [] h = "middle" -> middle
          [] h = "last" -> last
          [] h = "address" -> address
          [] h = "city" -> city
          [] h = "zip" -> zip
          [] h = "zip4" -> zip4
          [] h = "state" -> <<"I", "L">>
          [] OTHER -> NA]

\* An ENT node from, for every tag, either <<>> (no such child) or <<element>>.
Ent(children) ==
    [t \in {u \in DOMAIN children : children[u] # <<>>} |-> children[t][1]]

Children(name, company, street, street_2, street_3, city, state, postal_code) ==
    [t \in EXPERCTED_TAGS \ {"COUNTRY"} |->
        CASE t = "NAME" -> name
          [] t = "COMPANY" -> company
          [] t = "STREET" -> street
          [] t = "STREET_2" -> street_2
          [] t = "STREET_3" -> street_3
          [] t = "CITY" -> city
          [] t = "STATE" -> state
          [] OTHER -> postal_code]

\* Every text of at most n characters over the alphabet.
RECURSIVE Texts(_, _)
Texts(alphabet, n) ==
    IF n = 0 THEN {<<>>}
    ELSE LET shorter == Texts(alphabet, n - 1)
         IN  shorter \cup {Append(t, c) : t \in shorter, c \in alphabet}

\* Every sequence of 1..n members of S.
RECURSIVE Lists(_, _)
Lists(S, n) ==
    IF n = 0 THEN {}
    ELSE LET shorter == Lists(S, n - 1)
         IN  {<<x>> : x \in S} \cup shorter
               \cup {Append(l, x) : l \in shorter, x \in S}

\* Tabular files of one row.
TsvParts == {NA, <<>>, SP, <<"a">>}
TsvRows ==
    {Row(first, middle, last, address, city, zip, zip4) :
        first \in TsvParts, middle \in TsvParts, last \in {NA, <<>>, <<"b">>},
        address \in {NA, <<"s">>}, city \in {<<>>, <<"c">>},
        zip \in {NA, <<>>, <<"1">>}, zip4 \in {NA, <<>>, <<"2">>}}
TsvInputs == {<<TsvFile(EXPECTED_HEADERS, <<row>>)>> : row \in TsvRows}

\* Markup files of one ENT node; every required tag also occurs elsewhere
\* in the document, so the document passes the tag check.
XmlEnts ==
    {Ent(Children(name, company, street, street_2, street_3, city, state, postal_code)) :
        name \in {<<>>, <<EmptyElem>>, <<Elem(SP)>>, <<Elem(<<" ", "a", " ">>)>>},
        company \in {<<>>, <<EmptyElem>>, <<Elem(<<"b">>)>>},
        street \in {<<>>, <<Elem(SP)>>, <<Elem(<<" ", "s">>)>>},
        street_2 \in {<<>>, <<EmptyElem>>, <<Elem(<<"t">>)>>},
        street_3 \in {<<>>, <<Elem(<<"u", " ">>)>>},
        city \in {<<>>, <<EmptyElem>>, <<Elem(SP)>>},
        state \in {<<>>, <<Elem(NA)>>},
        postal_code \in {<<>>, <<EmptyElem>>, <<Elem(<<" ", "-", " ">>)>>,
                         <<Elem(<<" ", "1", " ", "-">>)>>}}
XmlInputs == {<<XmlFile(TRUE, EXPERCTED_TAGS, <<ent>>)>> : ent \in XmlEnts}

\* The pieces of a stripped text: the text starts and ends with a character
\* that is not whitespace, unless the file is empty and its one piece has
\* no line; no line of a piece but its first is the empty string.
Realizable(entries) ==
    \/ entries = <<<<>>>>
    \/ /\ entries # <<>>
       /\ entries[1] # <<>> /\ entries[1][1] # <<>>
       /\ entries[1][1][1] \notin Whitespace
       /\ LET last == entries[Len(entries)]
          IN  /\ last # <<>> /\ last[Len(last)] # <<>>
              /\ last[Len(last)][Len(last[Len(last)])] \notin Whitespace
       /\ \A k \in 1..Len(entries) :
             \A n \in 2..Len(entries[k]) : entries[k][n] # <<>>

\* Block-text files with an entry of 3 or 4 lines whose last line is any
\* text of at most MaxLineLen characters, or one of a few longer ones; the
\* entry is the whole file, or stands before, behind or between well-formed
\* entries.
LastLines ==
    Texts({",", " ", "-", "1"}, MaxLineLen)
      \cup {<<"a", ",", " ", "b", " ", "1">>,
            <<"a", ",", " ", "b", " ", ",", "c">>,
            <<"\t", "a", " ", ",", "b", " ", " ", "1", "-", "2", "-", "-", " ">>,
            <<"a", ",", "b", " ", "1", "\t", "-">>,
            <<"a", " ", "b", " ", "1">>}
TxtEntries ==
    {<<name, <<"s">>>> \o county \o <<last>> :
        name \in {<<"n">>, <<"\t", "n", " ">>},
        county \in {<<>>, <<<<"\t", "c">>>>},
        last \in LastLines}
PlainEntry == <<<<"m">>, <<"r">>, <<"e", ",", "f", " ", "5">>>>
TxtInputs ==
    {<<TxtFile(entries)>> :
        entries \in {es \in {<<entry>> : entry \in TxtEntries}
                              \cup {<<entry, PlainEntry>> : entry \in TxtEntries}
                              \cup {<<PlainEntry, entry>> : entry \in TxtEntries}
                              \cup {<<PlainEntry, entry, PlainEntry>> : entry \in TxtEntries} :
                        Realizable(es)}}

\* Block-text files of several entries.
EntryLibrary ==
    {<<<<"n">>, <<"s">>, <<"a", ",", " ", "b", " ", "1">>>>,
     <<<<"n">>, SP, <<"s">>, <<"c">>, <<"a", ",", "b", " ", "2">>, <<"\t">>>>,
     <<<<"n">>, <<"s">>, <<"a", "b">>>>,
     <<<<"n">>, <<"s">>>>,
     <<<<>>, <<"n">>, <<"s">>, <<"c">>, <<"d">>, <<"a", ",", " ", "1">>>>,
     <<>>}
TxtListInputs ==
    {<<TxtFile(entries)>> :
        entries \in {es \in Lists(EntryLibrary, MaxEntries) : Realizable(es)}}

\* Whole runs: lists of files that parse, fail, crash, are missing or are
\* of no supported format.
ZipRow(name, zip) == Row(name, NA, NA, NA, NA, zip, NA)
PassingEnt(zip) ==
    Ent(Children(<<Elem(<<"x">>)>>, <<>>, <<>>, <<>>, <<>>, <<>>, <<>>, <<Elem(zip)>>))
FileLibrary ==
    {TsvFile(EXPECTED_HEADERS, <<ZipRow(<<"p">>, <<"3", "0">>), ZipRow(<<"q">>, <<"1", "0">>)>>),
     XmlFile(TRUE, EXPERCTED_TAGS, <<PassingEnt(<<"2", "0">>), PassingEnt(<<"1", "0">>)>>),
     TxtFile(<<<<<<"t">>, <<"s">>, <<"a", ",", "b", " ", "9">>>>>>),
     File(<<"m">> \o TSV_SUFFIX, FALSE, TRUE, {}, <<>>, {}, <<>>, <<>>),
     File(<<"d", ".", "c", "s", "v">>, TRUE, TRUE, {}, <<>>, EXPECTED_HEADERS,
          <<ZipRow(<<"r">>, <<"1">>)>>, <<>>),
     File(<<"t", "x", "t">>, TRUE, TRUE, {}, <<>>, {}, <<>>,
          <<<<<<"t">>, <<"s">>, <<"a", ",", "b", " ", "1">>>>>>),
     TsvFile(EXPECTED_HEADERS \ {"zip4"}, <<>>),
     TsvFile(EXPECTED_HEADERS, <<ZipRow(<<"w">>, NA)>>),
     TxtFile(<<<<<<"t">>>>>>),
     XmlFile(TRUE, EXPERCTED_TAGS \ {"COUNTRY"}, <<PassingEnt(<<"1">>)>>),
     XmlFile(FALSE, {}, <<>>),
     XmlFile(TRUE, EXPERCTED_TAGS, <<PassingEnt(<<"1">>), Ent(Children(<<EmptyElem>>, <<>>, <<>>, <<>>, <<>>, <<>>, <<>>, <<>>))>>)}
RunInputs == Lists(FileLibrary, MaxFiles)

Inputs == TsvInputs \cup XmlInputs \cup TxtInputs \cup TxtListInputs \cup RunInputs

(***************************************************************************)
(* The program.                                                            *)
(***************************************************************************)
Init ==
    /\ files \in Inputs
    /\ i = 1
    /\ all_addresses = <<>>
    /\ parsed = <<>>
    /\ pc = "loop"
    /\ error = "none"
    /\ log = <<>>
    /\ stdout = <<>>
    /\ exit_code = -1

Next ==
    \/ NotFound
    \/ DispatchXml
    \/ DispatchTsv
    \/ DispatchTxt
    \/ Unsupported
    \/ SortAndPrint

Spec == Init /\ [][Next]_vars

(***************************************************************************)
(* Properties.                                                             *)
(***************************************************************************)
\* The first file handed to a parser has been parsed to the end: its
\* addresses are the first ones of all_addresses.
FirstReturned == Len(parsed) >= 1 /\ i > parsed[1]
First == files[parsed[1]]

IsXml(file) == endswith(file.name, XML_SUFFIX)
IsTsv(file) == endswith(file.name, TSV_SUFFIX)
IsTxt(file) == endswith(file.name, TXT_SUFFIX)

\* "Missing" in the words of the specification.
Missing(value) == value = NA \/ value = <<>>

Has(address, key) == key \in DOMAIN address

\* The parts, in order, joined by single spaces (at most four parts).
Spaced(parts) ==
    CASE Len(parts) = 0 -> <<>>
      [] Len(parts) = 1 -> parts[1]
      [] Len(parts) = 2 -> parts[1] \o SP \o parts[2]
      [] Len(parts) = 3 -> parts[1] \o SP \o parts[2] \o SP \o parts[3]
      [] OTHER -> parts[1] \o SP \o parts[2] \o SP \o parts[3] \o SP \o parts[4]

Only(value) == IF Missing(value) THEN <<>> ELSE <<value>>

C6Row(row, address) ==
    /\ (~Missing(row["zip"]) /\ Missing(row["zip4"]))
          => (Has(address, "zip") /\ address["zip"] = row["zip"])
    /\ (~Missing(row["zip"]) /\ ~Missing(row["zip4"]))
          => (Has(address, "zip") /\ address["zip"] = row["zip"] \o <<"-">> \o row["zip4"])
    /\ Missing(row["zip"]) => ~Has(address, "zip")

\* C6: every tabular row's zip is the zip column when zip4 is missing,
\* zip-zip4 when both are present, and no key at all when zip is missing.
C6_TsvZip ==
    (FirstReturned /\ IsTsv(First)) =>
        /\ Len(all_addresses) >= Len(First.rows)
        /\ \A k \in 1..Len(First.rows) : C6Row(First.rows[k], all_addresses[k])

C6_Witness ==
    /\ FirstReturned /\ IsTsv(First) /\ Len(First.rows) = 1
    /\ First.rows[1]["zip"] = <<"1">> /\ First.rows[1]["zip4"] = <<"2">>
    /\ all_addresses[1]["zip"] = <<"1", "-", "2">>

C7Row(row, address) ==
    IF Missing(row["first"]) /\ ~Missing(row["last"])
    THEN /\ Has(address, "organization") /\ address["organization"] = row["last"]
         /\ ~Has(address, "name")
    ELSE /\ ~Has(address, "organization")
         /\ Has(address, "name")
         /\ address["name"]
              = Spaced(Only(row["first"]) \o Only(row["middle"]) \o Only(row["last"]))

\* C7: a tabular row with first missing and last present yields organization =
\* last and no name; any other row yields no organization and name = the
\* present ones of first, middle, last joined by single spaces.
C7_TsvNameOrOrganization ==
    (FirstReturned /\ IsTsv(First)) =>
        /\ Len(all_addresses) >= Len(First.rows)
        /\ \A k \in 1..Len(First.rows) : C7Row(First.rows[k], all_addresses[k])

C7_Witness ==
    /\ FirstReturned /\ IsTsv(First) /\ Len(First.rows) = 1
    /\ First.rows[1]["first"] = NA /\ First.rows[1]["last"] = <<"b">>
    /\ all_addresses[1]["organization"] = <<"b">>
    /\ ~Has(all_addresses[1], "name")

\* C1: no address ever holds "" or "N/A" as the value of a key.
C1_NoEmptyOrSentinelValue ==
    \A k \in 1..Len(all_addresses) :
        \A key \in DOMAIN all_addresses[k] :
            all_addresses[k][key] # <<>> /\ all_addresses[k][key] # NA

Largest(S) == CHOOSE m \in S : \A n \in S : n <= m
Smallest(S) == CHOOSE m \in S : \A n \in S : m <= n

\* The text without its leading and trailing whitespace.
Trim(s) ==
    LET inked == {k \in 1..Len(s) : s[k] \notin Whitespace}
    IN  IF inked = {} THEN <<>> ELSE SubSeq(s, Smallest(inked), Largest(inked))

\* The text without the characters of chars at its end.
DropTrailing(s, chars) ==
    LET kept == {k \in 1..Len(s) : s[k] \notin chars}
    IN  IF kept = {} THEN <<>> ELSE SubSeq(s, 1, Largest(kept))

\* The text without the tabs at its start.
DropLeadingTabs(s) ==
    LET kept == {k \in 1..Len(s) : s[k] # "\t"}
    IN  IF kept = {} THEN <<>> ELSE SubSeq(s, Smallest(kept), Len(s))

PassesTagCheck(file) ==
    /\ file.wellformed
    /\ \A tag \in EXPERCTED_TAGS :
          tag \in file.other_tags \/ \E k \in 1..Len(file.ents) : tag \in DOMAIN file.ents[k]

\* The child's text counts: the child exists, has text, and the text is not blank.
Valued(ent, tag) ==
    /\ tag \in DOMAIN ent
    /\ ~ent[tag].is_none
    /\ Trim(ent[tag].text) # <<>>

OnlyValued(ent, tag) == IF Valued(ent, tag) THEN <<Trim(ent[tag].text)>> ELSE <<>>

C8Ent(ent, address) ==
    LET streets == OnlyValued(ent, "STREET") \o OnlyValued(ent, "STREET_2")
                     \o OnlyValued(ent, "STREET_3")
    IN  /\ Has(address, "name") <=> Valued(ent, "NAME")
        /\ Valued(ent, "NAME") => address["name"] = Trim(ent["NAME"].text)
        /\ Has(address, "organization") <=> Valued(ent, "COMPANY")
        /\ Valued(ent, "COMPANY") => address["organization"] = Trim(ent["COMPANY"].text)
        /\ Has(address, "street") <=> streets # <<>>
        /\ streets # <<>> => address["street"] = Spaced(streets)

\* C8: a markup document that passes the tag check is parsed to the end
\* and yields one address per ENT node, in document order, a child without
\* text counting as no value.
C8_XmlEveryEntYieldsAnAddress ==
    (Len(parsed) >= 1 /\ IsXml(First) /\ PassesTagCheck(First)) =>
        /\ FirstReturned
        /\ Len(all_addresses) >= Len(First.ents)
        /\ \A k \in 1..Len(First.ents) : C8Ent(First.ents[k], all_addresses[k])

\* The entry's non-blank lines, trimmed.
NonBlank(entry) ==
    LET kept == SelectSeq(entry, LAMBDA line : Trim(line) # <<>>)
    IN  [k \in 1..Len(kept) |-> Trim(kept[k])]

GoodShape(entry) == Len(NonBlank(entry)) \in {3, 4}

\* C9: a block-text file with an entry of other than 3 or 4 non-blank lines
\* raises the format error and yields no address; a file whose entries all
\* have 3 or 4 non-blank lines never raises it.
C9_TxtShapeCheck ==
    (Len(parsed) >= 1 /\ IsTxt(First)) =>
        IF \E k \in 1..Len(First.entries) : ~GoodShape(First.entries[k])
        THEN error = "InvalidFileFormatError" /\ all_addresses = <<>>
        ELSE error # "InvalidFileFormatError"

\* The entry's last non-blank line, trimmed and without leading tabs.
LastLine(entry) == DropLeadingTabs(NonBlank(entry)[Len(NonBlank(entry))])

Places(line, c) == {k \in 1..Len(line) : line[k] = c}

\* The last line holds a comma and, somewhere behind a comma, a space.
CommaThenSpace(line) ==
    \E a \in Places(line, ",") : \E b \in Places(line, " ") : a < b

\* The last line holds a space behind its last comma.
SpaceBehindLastComma(line) ==
    /\ Places(line, ",") # {}
    /\ \E b \in Places(line, " ") : Largest(Places(line, ",")) < b

C10Entry(entry, address) ==
    LET lines == NonBlank(entry)
        line == LastLine(entry)
        comma == Largest(Places(line, ","))
        space == Largest(Places(line, " "))
    IN  /\ DOMAIN address = {"name", "street", "city", "state", "zip"}
                              \cup (IF Len(lines) = 4 THEN {"county"} ELSE {})
        /\ address["name"] = DropLeadingTabs(lines[1])
        /\ address["street"] = DropLeadingTabs(lines[2])
        /\ Len(lines) = 4 => address["county"] = DropLeadingTabs(lines[3])
        /\ address["city"] = Trim(SubSeq(line, 1, comma - 1))
        /\ address["state"] = Trim(SubSeq(line, comma + 1, space - 1))
        /\ address["zip"]
             = Trim(DropTrailing(Trim(SubSeq(line, space + 1, Len(line))), {"-"}))

C10Emitted ==
    /\ FirstReturned
    /\ Len(all_addresses) >= Len(First.entries)
    /\ \A k \in 1..Len(First.entries) : C10Entry(First.entries[k], all_addresses[k])

\* C10 as stated: a block-text file whose entries all have 3 or 4 non-blank
\* lines and a last line with a comma followed later by a space yields one
\* address per entry, in file order, with the fields split as described.
C10_TxtCommaThenSpace ==
    (/\ Len(parsed) >= 1 /\ IsTxt(First)
     /\ \A k \in 1..Len(First.entries) :
           GoodShape(First.entries[k]) /\ CommaThenSpace(LastLine(First.entries[k])))
        => C10Emitted

\* C10 amended: a block-text file whose entries all have 3 or 4 non-blank
\* lines and a last line with a space behind its last comma yields one
\* address per entry, in file order, with the fields split as described.
C10_TxtSpaceBehindLastComma ==
    (/\ Len(parsed) >= 1 /\ IsTxt(First)
     /\ \A k \in 1..Len(First.entries) :
           GoodShape(First.entries[k]) /\ SpaceBehindLastComma(LastLine(First.entries[k])))
        => C10Emitted

C10_Witness ==
    /\ FirstReturned /\ IsTxt(First)
    /\ First.entries = <<PlainEntry, <<<<"\t", "n", " ">>, <<"s">>, <<"\t", "c">>,
         <<"\t", "a", " ", ",", "b", " ", " ", "1", "-", "2", "-", "-", " ">>>>, PlainEntry>>
    /\ all_addresses[2] = [name |-> <<"n">>, street |-> <<"s">>, county |-> <<"c">>,
                           city |-> <<"a">>, state |-> <<"b">>,
                           zip |-> <<"1", "-", "2">>]
    /\ Len(all_addresses) = 3

\* The file is handed to a parser: it exists and its name ends in one of
\* the three suffixes.
Dispatched(file) == file.isfile /\ (IsXml(file) \/ IsTsv(file) \/ IsTxt(file))

ParserOf(file) ==
    IF IsXml(file) THEN parse_xml(file)
    ELSE IF IsTsv(file) THEN parse_tsv(file)
    ELSE parse_txt(file)

\* The addresses the parsers return for the files, in the files' order.
RECURSIVE Concatenation(_)
Concatenation(fs) ==
    IF fs = <<>> THEN <<>>
    ELSE (IF Dispatched(Head(fs)) THEN ParserOf(Head(fs)).addresses ELSE <<>>)
           \o Concatenation(Tail(fs))

\* a comes before b as text: a is a proper prefix of b, or the first
\* character in which they differ is the smaller one in a.
TextBefore(a, b) ==
    \E k \in 1..Len(b) :
        /\ k <= Len(a) + 1
        /\ \A n \in 1..(k - 1) : a[n] = b[n]
        /\ k = Len(a) + 1 \/ Ord(a[k]) < Ord(b[k])

WithZip(addresses, zip) == SelectSeq(addresses, LAMBDA a : a["zip"] = zip)

Orderings(n) == {q \in [1..n -> 1..n] : \A a, b \in 1..n : q[a] = q[b] => a = b}

ZipsOf(addresses) == {addresses[k]["zip"] : k \in 1..Len(addresses)}

\* C2: what process_files returns is the concatenation of the parsers'
\* addresses rearranged: as many addresses, ascending by zip as text, the
\* addresses of each zip in the order of the concatenation; and each zip
\* occurs as often as in the concatenation of any reordering of the files.
C2_SortedStablePermutation ==
    (pc = "done" /\ error = "none") =>
        LET out == stdout[1]
            cat == Concatenation(files)
        IN  /\ Len(out) = Len(cat)
            /\ \A k \in 1..(Len(out) - 1) : ~TextBefore(out[k + 1]["zip"], out[k]["zip"])
            /\ \A zip \in ZipsOf(cat) \cup ZipsOf(out) : WithZip(out, zip) = WithZip(cat, zip)
            /\ \A q \in Orderings(Len(files)) :
                  LET other == Concatenation([k \in 1..Len(files) |-> files[q[k]]])
                  IN  \A zip \in ZipsOf(other) \cup ZipsOf(out) :
                         Len(WithZip(other, zip)) = Len(WithZip(out, zip))

C2_Witness ==
    /\ pc = "done" /\ error = "none"
    /\ Len(files) = 3 /\ IsTxt(files[1]) /\ IsTsv(files[2]) /\ IsXml(files[3])
    /\ Len(stdout[1]) = 5
    /\ [k \in 1..5 |-> stdout[1][k]["zip"]]
         = <<<<"1", "0">>, <<"1", "0">>, <<"2", "0">>, <<"3", "0">>, <<"9">>>>
    /\ [k \in 1..5 |-> stdout[1][k]["name"]]
         = <<<<"q">>, <<"x">>, <<"x">>, <<"p">>, <<"t">>>>

\* The parser's format validation rejects the file: the markup is not
\* well-formed or lacks a required tag, the header row lacks a required
\* header, or the parser comes to a block-text entry of other than 3 or 4
\* non-blank lines.
ValidationFails(file) ==
    IF IsXml(file) THEN ~PassesTagCheck(file)
    ELSE IF IsTsv(file) THEN \E h \in EXPECTED_HEADERS : h \notin file.headers
    ELSE \E k \in 1..Len(file.entries) :
            /\ ~GoodShape(file.entries[k])
            /\ \A j \in 1..(k - 1) :
                  /\ GoodShape(file.entries[j])
                  /\ SpaceBehindLastComma(LastLine(file.entries[j]))

C4_SucceedsWithoutFormatError ==
    (pc = "done" /\ i > Len(files)) =>
        /\ exit_code = 0
        /\ Len(stdout) = 1
        /\ Len(stdout[1]) = Len(all_addresses)

\* The run of process_files and main over files that are all handed to a
\* parser.
RECURSIVE RunOf(_, _)
RunOf(fs, addresses) ==
    IF fs = <<>>
    THEN IF \E k \in 1..Len(addresses) : ~Has(addresses[k], "zip")
         THEN [error |-> "KeyError", stdout |-> <<>>, exit_code |-> 1]
         ELSE [error |-> "none", stdout |-> <<sorted_by_zip(addresses)>>, exit_code |-> 0]
    ELSE IF ParserOf(Head(fs)).status = "ok"
    THEN RunOf(Tail(fs), addresses \o ParserOf(Head(fs)).addresses)
    ELSE [error |-> ParserOf(Head(fs)).status, stdout |-> <<>>, exit_code |-> 1]

\* C5: a path that is no regular file or has no supported suffix adds no
\* address, changes none and does not stop the run: the addresses gathered
\* are those of the files handed to a parser so far, and the run ends as
\* the run over the list without the skipped paths ends.
C5_SkippedPathsChangeNothing ==
    /\ (pc = "loop") =>
          all_addresses = Concatenation(SelectSeq(SubSeq(files, 1, i - 1), Dispatched))
    /\ (pc = "done") =>
          [error |-> error, stdout |-> stdout, exit_code |-> exit_code]
            = RunOf(SelectSeq(files, Dispatched), <<>>)

C5_Witness ==
    /\ pc = "done" /\ exit_code = 0
    /\ Len(files) = 3
    /\ ~files[1].isfile
    /\ files[2].isfile /\ ~Dispatched(files[2])
    /\ IsTsv(files[3])
    /\ Len(stdout[1]) = 2
    /\ Len(log) = 2

====
